---- MODULE Spec2Model ----
(***************************************************************************)
(* Model of the Analogue Pocket release workflow (pocket.py and the        *)
(* helpers package): folder preparation, staging, clean-up, core.json      *)
(* update, bitstream reversal, packaging and release.                      *)
(*                                                                         *)
(* File names are sequences of one-character strings, paths are sequences  *)
(* of names relative to the folder they live in, and a folder is a         *)
(* function from paths to nodes; the empty function is an absent folder    *)
(* and the root path << >> is the folder itself.                           *)
(***************************************************************************)
EXTENDS Integers, Sequences, FiniteSets, TLC

VARIABLES pc, steps, errors, config, norelease, ref_name, today, pkg, stage, release, output_rbf,
          residue, pkg_file, meta_file, uploaded, remote, requests,
          src_bytes, byte_array, passes, calls, raised

vars == <<pc, steps, errors, config, norelease, ref_name, today, pkg, stage, release, output_rbf,
          residue, pkg_file, meta_file, uploaded, remote, requests,
          src_bytes, byte_array, passes, calls, raised>>

pipeVars == <<pc, steps, errors, config, norelease, ref_name, today, pkg, stage, release, output_rbf,
              residue, pkg_file, meta_file, uploaded, remote, requests>>

bitVars == <<src_bytes, byte_array, passes>>

stagerVars == <<calls, raised>>

----------------------------------------------------------------------------
(* Bounds *)

MaxLen == 3          \* longest byte buffer drawn from SampleBytes
MaxCalls == 2        \* stager calls applied in a row by the stager harness
MaxPasses == 2       \* applications of the bit reversal to one buffer

----------------------------------------------------------------------------
(* Names *)

\* the tag a run is started for
DefaultTag == <<"V", "1", ".", "0">>

Author == <<"A", "u">>
Name == <<"C", "o">>
Target == <<"P", "o", "c", "k", "e", "t">>

n_Cores == <<"C", "o", "r", "e", "s">>
n_core_json == <<"c", "o", "r", "e", ".", "j", "s", "o", "n">>
n_bitstream == <<"b", "i", "t", "s", "t", "r", "e", "a", "m", ".", "r", "b", "f", "_", "r">>
n_a_png == <<"a", ".", "p", "n", "g">>
n_b_rbf == <<"b", ".", "r", "b", "f">>
n_c_txt == <<"c", ".", "t", "x", "t">>
n_x_rom == <<"x", ".", "r", "o", "m">>
n_gitkeep == <<".", "g", "i", "t", "k", "e", "e", "p">>
n_hid == <<".", "h">>
n_old == <<"o", "l", "d">>
n_doc == <<"d", "o", "c">>

\* f"{config['author']}.{config['name']}"
core_folder == Author \o <<".">> \o Name

core_json_path == <<n_Cores, core_folder, n_core_json>>
reverse_rbf_file == <<n_Cores, core_folder, n_bitstream>>

\* file_patterns = ["*.png", "*.rom", "*.gitkeep"]
file_patterns == << <<"*", ".", "p", "n", "g">>,
                    <<"*", ".", "r", "o", "m">>,
                    <<"*", ".", "g", "i", "t", "k", "e", "e", "p">> >>

----------------------------------------------------------------------------
(* Bit operations on non-negative integers *)

RECURSIVE BitAnd(_, _)
BitAnd(x, m) ==
    IF x = 0 \/ m = 0 THEN 0
    ELSE (x % 2) * (m % 2) + 2 * BitAnd(x \div 2, m \div 2)

RECURSIVE BitOr(_, _)
BitOr(x, y) ==
    IF x = 0 THEN y
    ELSE IF y = 0 THEN x
    ELSE (IF x % 2 = 1 \/ y % 2 = 1 THEN 1 ELSE 0) + 2 * BitOr(x \div 2, y \div 2)

Shl(x, n) == x * (2 ^ n)

Shr(x, n) == x \div (2 ^ n)

\* the swap of bit 3 is missing its shift
reverse_bits_noshift(b) ==
    BitOr(BitOr(BitOr(BitOr(BitOr(BitOr(BitOr(
        Shl(BitAnd(b, 1), 7),
        Shl(BitAnd(b, 2), 5)),
        Shl(BitAnd(b, 4), 3)),
        BitAnd(b, 8)),
        Shr(BitAnd(b, 16), 1)),
        Shr(BitAnd(b, 32), 3)),
        Shr(BitAnd(b, 64), 5)),
        Shr(BitAnd(b, 128), 7))

\* the two nibbles are exchanged instead of the eight bits mirrored
reverse_bits_nibbles(b) == Shl(BitAnd(b, 15), 4) + Shr(BitAnd(b, 240), 4)

\* the expression assigned to byte_array[i]
reverse_bits(b) ==
    BitOr(BitOr(BitOr(BitOr(BitOr(BitOr(BitOr(
        Shl(BitAnd(b, 1), 7),
        Shl(BitAnd(b, 2), 5)),
        Shl(BitAnd(b, 4), 3)),
        Shl(BitAnd(b, 8), 1)),
        Shr(BitAnd(b, 16), 1)),
        Shr(BitAnd(b, 32), 3)),
        Shr(BitAnd(b, 64), 5)),
        Shr(BitAnd(b, 128), 7))

\* the loop stores each reversed byte one index too far to the left
RECURSIVE reverse_loop_shifted(_, _)
reverse_loop_shifted(arr, i) ==
    IF i > Len(arr) THEN arr
    ELSE reverse_loop_shifted(
             [arr EXCEPT ![IF i = 1 THEN 1 ELSE i - 1] = reverse_bits(arr[i])], i + 1)

\* for i in range(len(byte_array)): byte_array[i] = <reversed byte_array[i]>
RECURSIVE reverse_loop(_, _)
reverse_loop(arr, i) ==
    IF i > Len(arr) THEN arr
    ELSE reverse_loop([arr EXCEPT ![i] = reverse_bits(arr[i])], i + 1)

----------------------------------------------------------------------------
(* Byte buffers of the bit-reversal harness *)

Bytes == 0 .. 255

SampleBytes == {0, 1, 128, 192, 255}

RECURSIVE SeqsOfLen(_, _)
SeqsOfLen(S, n) ==
    IF n = 0 THEN {<< >>}
    ELSE {Append(s, x) : s \in SeqsOfLen(S, n - 1), x \in S}

ByteBuffers ==
    {<< >>} \cup {<<x>> : x \in Bytes}
            \cup UNION {SeqsOfLen(SampleBytes, n) : n \in 2 .. MaxLen}

----------------------------------------------------------------------------
(* Folders as trees *)

DirNode == [kind |-> "dir", data |-> [form |-> "none"]]

FileNode(d) == [kind |-> "file", data |-> d]

\* a binary file holding the bytes bs
Bin(bs) ==
    [form |-> "bin", bytes |-> bs, core |-> "none", version |-> << >>,
     date_release |-> << >>]

\* a JSON document: core is "ok" when data['core']['metadata'] exists,
\* "nometa" when only data['core'] exists, "absent" when neither does
Json(c, v, d) ==
    [form |-> "json", bytes |-> << >>, core |-> c, version |-> v,
     date_release |-> d]

\* a file that is not valid JSON
BadJson == [form |-> "badjson", bytes |-> << >>, core |-> "none",
            version |-> << >>, date_release |-> << >>]

\* a folder that does not exist
Absent == [p \in {} |-> DirNode]

\* an existing folder with nothing in it
EmptyDir == [p \in {<< >>} |-> DirNode]

\* os.path.exists
Exists(t, p) == p \in DOMAIN t

\* os.path.isdir
IsDir(t, p) == p \in DOMAIN t /\ t[p].kind = "dir"

IsFile(t, p) == p \in DOMAIN t /\ t[p].kind = "file"

Files(t) == {p \in DOMAIN t : t[p].kind = "file"}

IsPrefix(p, q) == Len(p) <= Len(q) /\ SubSeq(q, 1, Len(p)) = p

Parent(p) == SubSeq(p, 1, Len(p) - 1)

\* os.path.basename
Base(p) == p[Len(p)]

\* os.listdir / os.scandir
Children(t, p) == {q \in DOMAIN t : Len(q) = Len(p) + 1 /\ IsPrefix(p, q)}

Put(t, p, n) == [q \in (DOMAIN t) \cup {p} |-> IF q = p THEN n ELSE t[q]]

RemovePaths(t, P) == [q \in (DOMAIN t) \ P |-> t[q]]

\* a tree built from a set of <<path, node>> pairs
Tree(entries) ==
    [p \in {e[1] : e \in entries} |-> (CHOOSE e \in entries : e[1] = p)[2]]

\* every entry but the root has its parent directory in the tree
WellFormed(t) ==
    \A p \in DOMAIN t : p # << >> => IsDir(t, Parent(p))

----------------------------------------------------------------------------
(* glob *)

\* fnmatch.fnmatchcase for patterns whose only wildcard is "*"
RECURSIVE fnmatch(_, _)
fnmatch(name, pat) ==
    IF pat = << >> THEN name = << >>
    ELSE IF Head(pat) = "*"
         THEN \E k \in 0 .. Len(name) :
                  fnmatch(SubSeq(name, k + 1, Len(name)), Tail(pat))
         ELSE name # << >> /\ Head(name) = Head(pat)
              /\ fnmatch(Tail(name), Tail(pat))

\* glob._ishidden
ishidden(name) == name # << >> /\ Head(name) = "."

\* glob.glob(os.path.join(stage_folder, "**", pattern), recursive=True):
\* "**" walks the directories no component of which is hidden, and in each
\* of them the pattern, which does not start with a dot, skips hidden names
glob(t, pat) ==
    {p \in (DOMAIN t) \ {<< >>} :
        /\ IsDir(t, Parent(p))
        /\ \A i \in 1 .. Len(p) - 1 : ~ishidden(p[i])
        /\ ishidden(pat) \/ ~ishidden(Base(p))
        /\ fnmatch(Base(p), pat)}

----------------------------------------------------------------------------
(* helpers/package.py: create_folders *)

\* shutil.rmtree(folder, ignore_errors=True): whatever cannot be deleted
\* stays, together with the directories above it, and no error is raised
rmtree(t) ==
    {RemovePaths(t, R) : R \in {Q \in SUBSET (DOMAIN t) :
        \A p \in Q : \A q \in DOMAIN t : IsPrefix(p, q) => q \in Q}}

\* the body of create_folders: os.makedirs raises FileExistsError (an
\* IOError) when the folder is still there, the except clause prints it and
\* the function returns without touching what comes after
create_folders_outcomes(st, rel) ==
    UNION {
        IF Exists(s1, << >>)
        THEN {[stage |-> s1, release |-> rel, err |-> TRUE]}
        ELSE {IF Exists(r1, << >>)
              THEN [stage |-> EmptyDir, release |-> r1, err |-> TRUE]
              ELSE [stage |-> EmptyDir, release |-> EmptyDir, err |-> FALSE]
              : r1 \in rmtree(rel)}
        : s1 \in rmtree(st)}

----------------------------------------------------------------------------
(* helpers/package.py: copy_packaging_folder *)

\* shutil.copy2(src, dst): a dst that is a directory receives the file under
\* the source's base name; opening a directory for writing fails
copy2(dst, node, dp, name) ==
    LET target == IF IsDir(dst, dp) THEN Append(dp, name) ELSE dp
    IN  IF IsDir(dst, target) \/ ~IsDir(dst, Parent(target))
        THEN [tree |-> dst, err |-> TRUE]
        ELSE [tree |-> Put(dst, target, node), err |-> FALSE]

RECURSIVE copytree(_, _, _, _)
RECURSIVE copy_entries(_, _, _, _)

\* the loop of shutil._copytree over the entries of one source directory:
\* an entry that fails is recorded and the loop goes on
copy_entries(src, dst, todo, dp) ==
    IF todo = {} THEN [tree |-> dst, err |-> FALSE]
    ELSE LET c == CHOOSE x \in todo : TRUE
             r == IF IsDir(src, c)
                  THEN copytree(src, dst, c, Append(dp, Base(c)))
                  ELSE copy2(dst, src[c], Append(dp, Base(c)), Base(c))
             rest == copy_entries(src, r.tree, todo \ {c}, dp)
         IN  [tree |-> rest.tree, err |-> r.err \/ rest.err]

\* copytree without dirs_exist_ok: an existing destination is an error
copytree_strict(src, dst, sp, dp) ==
    IF Exists(dst, dp) THEN [tree |-> dst, err |-> TRUE]
    ELSE copy_entries(src, Put(dst, dp, DirNode), Children(src, sp), dp)

\* shutil.copytree(src, dst, dirs_exist_ok=True): os.makedirs(dst,
\* exist_ok=True) fails when dst is a regular file
copytree(src, dst, sp, dp) ==
    IF IsFile(dst, dp) THEN [tree |-> dst, err |-> TRUE]
    ELSE copy_entries(src, Put(dst, dp, DirNode), Children(src, sp), dp)

\* one iteration of the loop of copy_packaging_folder
copy_item(src, dst, c) ==
    IF IsDir(src, c)
    THEN copytree(src, dst, c, <<Base(c)>>)
    ELSE copy2(dst, src[c], <<Base(c)>>, Base(c))

RECURSIVE copy_items(_, _, _)
copy_items(src, dst, todo) ==
    IF todo = {} THEN dst
    ELSE LET c == CHOOSE x \in todo : TRUE
         IN  copy_items(src, copy_item(src, dst, c).tree, todo \ {c})

\* the body of copy_packaging_folder: the destination is created when it is
\* absent, then every item of the source is copied; the first item that
\* raises ends the call, the items listed before it (os.listdir's order is
\* the file system's) having been copied
copy_packaging_folder_outcomes(src, dst) ==
    LET d0 == IF Exists(dst, << >>) THEN dst ELSE EmptyDir
        items == Children(src, << >>)
        bad == {c \in items : copy_item(src, d0, c).err}
    IN  IF ~Exists(src, << >>) THEN {[tree |-> d0, raised |-> TRUE]}
        ELSE IF bad = {}
        THEN {[tree |-> copy_items(src, d0, items), raised |-> FALSE]}
        ELSE {[tree |-> copy_item(src, copy_items(src, d0, S), f).tree,
               raised |-> TRUE] : f \in bad, S \in SUBSET (items \ bad)}

----------------------------------------------------------------------------
(* helpers/package.py: clean_up_files *)

\* clean-up that removes the directories the patterns match as well
RECURSIVE clean_from_dirs_too(_, _)
clean_from_dirs_too(t, k) ==
    IF k > Len(file_patterns) THEN {[tree |-> t, raised |-> FALSE]}
    ELSE clean_from_dirs_too(
             RemovePaths(t, {q \in DOMAIN t :
                 \E p \in glob(t, file_patterns[k]) : IsPrefix(p, q)}), k + 1)

\* the loops of clean_up_files from pattern k on: os.remove deletes a file
\* and raises on a directory, which ends the call after the matches listed
\* before it (in the file system's order) have been deleted
RECURSIVE clean_from(_, _)
clean_from(t, k) ==
    IF k > Len(file_patterns) THEN {[tree |-> t, raised |-> FALSE]}
    ELSE LET M == glob(t, file_patterns[k])
             D == {p \in M : IsDir(t, p)}
         IN  IF D = {} THEN clean_from(RemovePaths(t, M), k + 1)
             ELSE {[tree |-> RemovePaths(t, R), raised |-> TRUE] :
                      R \in SUBSET (M \ D)}

clean_up_files_outcomes(t) == clean_from(t, 1)

----------------------------------------------------------------------------
(* Environment and dates *)

\* os.getenv('GITHUB_REF')
GITHUB_REF == <<"r", "e", "f", "s", "/", "t", "a", "g", "s", "/">> \o ref_name

\* s.split('/')[-1]
last_segment(s) ==
    LET idx == {i \in 1 .. Len(s) : s[i] = "/"}
    IN  IF idx = {} THEN s
        ELSE SubSeq(s, (CHOOSE i \in idx : \A j \in idx : j <= i) + 1, Len(s))

DigitChar == <<"0", "1", "2", "3", "4", "5", "6", "7", "8", "9">>

\* the decimal digits of n, zero-padded to width w
RECURSIVE Digits(_, _)
Digits(n, w) ==
    IF w = 0 THEN << >>
    ELSE Append(Digits(n \div 10, w - 1), DigitChar[(n % 10) + 1])

\* date.strftime("%Y%m%d")
strftime_Ymd(t) == Digits(t.y, 4) \o Digits(t.m, 2) \o Digits(t.d, 2)

\* date.strftime("%Y-%m-%d")
strftime_Y_m_d(t) ==
    Digits(t.y, 4) \o <<"-">> \o Digits(t.m, 2) \o <<"-">> \o Digits(t.d, 2)

----------------------------------------------------------------------------
(* helpers/json.py: update_apf_core_json *)

\* read_json_file: None for a missing, unreadable or undecodable file
read_json_file(t, p) ==
    IF IsFile(t, p) /\ t[p].data.form = "json"
    THEN [none |-> FALSE, data |-> t[p].data]
    ELSE [none |-> TRUE, data |-> BadJson]

\* the body of update_apf_core_json: testing 'core' in None raises
\* TypeError; a document without core.metadata is reported and left alone
update_apf_core_json_outcome(t, day) ==
    LET r == read_json_file(t, core_json_path)
    IN  IF r.none THEN [tree |-> t, raised |-> TRUE, err |-> FALSE]
        ELSE IF r.data.core = "ok"
        THEN [tree |-> Put(t, core_json_path,
                           FileNode(Json("ok", last_segment(GITHUB_REF),
                                         strftime_Y_m_d(day)))),
              raised |-> FALSE, err |-> FALSE]
        ELSE [tree |-> t, raised |-> FALSE, err |-> TRUE]

----------------------------------------------------------------------------
(* helpers/package.py: reverse_bitstream *)

\* the reversed file is written at the top of the stage folder
reverse_bitstream_outcome_top(t, rbf, wfail) ==
    IF ~rbf.readable \/ wfail THEN [tree |-> t, err |-> TRUE]
    ELSE [tree |-> Put(t, <<n_bitstream>>, FileNode(Bin(reverse_loop(rbf.bytes, 1)))),
          err |-> FALSE]

\* the body of reverse_bitstream; wfail is the file system refusing the
\* write.  Every IOError is printed by the except clause and the function
\* returns
reverse_bitstream_outcome(t, rbf, wfail) ==
    IF ~rbf.readable THEN [tree |-> t, err |-> TRUE]
    ELSE IF wfail \/ ~IsDir(t, Parent(reverse_rbf_file)) \/ IsDir(t, reverse_rbf_file)
    THEN [tree |-> t, err |-> TRUE]
    ELSE [tree |-> Put(t, reverse_rbf_file,
                       FileNode(Bin(reverse_loop(rbf.bytes, 1)))),
          err |-> FALSE]

----------------------------------------------------------------------------
(* Filename templates *)

\* a template is a sequence of tokens: a replacement field or one character
ReplacementFields ==
    {"{author}", "{core}", "{version}", "{date}", "{target}", "{platform}"}

UpperChars == <<"A", "B", "C", "D", "E", "F", "G", "H", "I", "J", "K", "L", "M",
                "N", "O", "P", "Q", "R", "S", "T", "U", "V", "W", "X", "Y", "Z">>

LowerChars == <<"a", "b", "c", "d", "e", "f", "g", "h", "i", "j", "k", "l", "m",
                "n", "o", "p", "q", "r", "s", "t", "u", "v", "w", "x", "y", "z">>

\* the rendered name as it is
lower_asis(s) == s

\* str.lower
lower(s) ==
    [i \in 1 .. Len(s) |->
        IF \E k \in 1 .. Len(UpperChars) : UpperChars[k] = s[i]
        THEN LowerChars[CHOOSE k \in 1 .. Len(UpperChars) : UpperChars[k] = s[i]]
        ELSE s[i]]

RECURSIVE format(_, _)

\* a field kwargs does not supply stays in the text as written
format_lenient(template, kwargs) ==
    IF template = << >> THEN [ok |-> TRUE, text |-> << >>]
    ELSE LET tok == Head(template)
             rest == format(Tail(template), kwargs)
         IN  IF tok \in ReplacementFields /\ tok \in DOMAIN kwargs
             THEN [ok |-> rest.ok, text |-> kwargs[tok] \o rest.text]
             ELSE [ok |-> rest.ok, text |-> <<tok>> \o rest.text]

\* str.format(**kwargs): KeyError for a field kwargs does not supply
format(template, kwargs) ==
    IF template = << >> THEN [ok |-> TRUE, text |-> << >>]
    ELSE LET tok == Head(template)
             rest == format(Tail(template), kwargs)
         IN  IF tok \in ReplacementFields
             THEN IF tok \in DOMAIN kwargs
                  THEN [ok |-> rest.ok, text |-> kwargs[tok] \o rest.text]
                  ELSE [ok |-> FALSE, text |-> << >>]
             ELSE [ok |-> rest.ok, text |-> <<tok>> \o rest.text]

release_template ==
    <<"{author}", ".", "{core}", "_", "{version}", "_", "{date}", "-", "{target}">>

metadata_template == <<"{core}", "-", "M", "e", "t", "a", "_", "{version}">>

\* a template with a field neither package function supplies
platform_template == <<"{core}", "_", "{platform}">>

\* a metadata template that names the target
metadata_target_template == <<"{core}", "-", "{target}", "_", "{version}">>

\* config['release']['target'][target] with the templates it holds
TargetConfig(keys, rel, meta) ==
    [author |-> Author, name |-> Name,
     target |-> [k \in keys |-> IF k = "release_file" THEN rel ELSE meta]]

MetadataOnlyConfig == TargetConfig({"metadata_file"}, << >>, metadata_template)

\* the gateware.json files of the model
Configs ==
    {TargetConfig({"release_file", "metadata_file"}, release_template, metadata_template),
     MetadataOnlyConfig,
     TargetConfig({"release_file"}, release_template, << >>),
     TargetConfig({"release_file", "metadata_file"}, platform_template, metadata_template),
     TargetConfig({"release_file", "metadata_file"}, release_template, metadata_target_template),
     TargetConfig({"release_file", "metadata_file"}, release_template, platform_template)}

----------------------------------------------------------------------------
(* helpers/package.py: archives and packages *)

NoneValue == [some |-> FALSE, name |-> << >>]

Some(n) == [some |-> TRUE, name |-> n]

NoMembers == [p \in {} |-> BadJson]

\* config['release']['folders']['stage_folder'] and ['meta_folder']
stage_folder_path == << <<"s", "t", "a", "g", "i", "n", "g">> >>

meta_folder_path == << <<"m", "e", "t", "a">> >>

\* for root, dirs, files in os.walk(source_dir): for file in files:
\* os.path.join(root, file); a source_dir that is no directory yields nothing
RECURSIVE os_walk(_, _, _)
os_walk(source, source_dir, root) ==
    IF ~IsDir(source, root) THEN {}
    ELSE LET entries == Children(source, root)
         IN  {source_dir \o q : q \in {e \in entries : IsFile(source, e)}}
             \cup UNION {os_walk(source, source_dir, q) :
                            q \in {e \in entries : IsDir(source, e)}}

\* the member name is the path as walked, source_dir included
relpath_joined(path, start) == path

\* os.path.relpath(path, start=start) for a path below start
relpath(path, start) == SubSeq(path, Len(start) + 1, Len(path))

\* the content of the file at file_path, a path os_walk produced
read_file(source, source_dir, file_path) ==
    source[SubSeq(file_path, Len(source_dir) + 1, Len(file_path))].data

\* zipf.write(file_path, arcname) / tar.add(file_path, arcname=arcname) for
\* every file the walk finds
Archive(form, source_dir, source) ==
    LET found == os_walk(source, source_dir, << >>)
        arcnames == {relpath(fp, source_dir) : fp \in found}
    IN  FileNode([form |-> form,
                  members |-> [a \in arcnames |->
                      read_file(source, source_dir,
                          CHOOSE fp \in found : relpath(fp, source_dir) = a)]])

\* an archive whose writing stopped half way
PartialArchive == FileNode([form |-> "partial", members |-> NoMembers])

\* how writing an output file can go: well, the open fails, a write fails
WriteFaults == {"none", "open", "write"}

\* create_zip_file / create_tar_gz: opening output_filename fails when the
\* release folder is missing or the name is taken by a directory; whatever
\* exception is raised inside the try is printed and not raised again
write_archive(source_dir, source, rel, filename, form, fault) ==
    IF ~IsDir(rel, << >>) \/ IsDir(rel, <<filename>>) \/ fault = "open"
    THEN [tree |-> rel, err |-> TRUE]
    ELSE IF fault = "write"
         THEN [tree |-> Put(rel, <<filename>>, PartialArchive), err |-> TRUE]
         ELSE [tree |-> Put(rel, <<filename>>, Archive(form, source_dir, source)),
               err |-> FALSE]

zip_ext == <<".", "z", "i", "p">>

tar_gz_ext == <<".", "t", "a", "r", ".", "g", "z">>

\* the folder config['release']['folders']['meta_folder'] names
meta_folder ==
    Tree({<< << >>, DirNode >>,
          << <<n_c_txt>>, FileNode(Bin(<<1>>)) >>,
          << <<n_old>>, DirNode >>,
          << <<n_doc>>, DirNode >>,
          << <<n_doc, n_a_png>>, FileNode(Bin(<<3>>)) >>,
          << <<n_doc, n_hid>>, FileNode(Bin(<<4>>)) >>})

\* create_release_package when the target has a release_file template
build_release_package(cfg, day, st, rel, fault) ==
    LET f == format(cfg.target["release_file"],
                [k \in {"{author}", "{core}", "{version}", "{date}", "{target}"} |->
                    CASE k = "{author}" -> cfg.author
                      [] k = "{core}" -> cfg.name
                      [] k = "{version}" -> last_segment(GITHUB_REF)
                      [] k = "{date}" -> strftime_Ymd(day)
                      [] k = "{target}" -> Target])
        release_file == lower(f.text)
        z == write_archive(stage_folder_path, st, rel, release_file \o zip_ext,
                           "zip", fault)
    IN  IF ~f.ok
        THEN [release |-> rel, ret |-> NoneValue, raised |-> TRUE, err |-> FALSE]
        ELSE [release |-> z.tree, ret |-> Some(release_file \o zip_ext),
              raised |-> FALSE, err |-> z.err]

\* config['release']['target'][target]['release_file'] read without the test
create_release_package_outcome_keyed(cfg, day, st, rel, fault) ==
    IF "release_file" \in DOMAIN cfg.target
    THEN build_release_package(cfg, day, st, rel, fault)
    ELSE [release |-> rel, ret |-> NoneValue, raised |-> TRUE, err |-> FALSE]

\* the body of create_release_package
create_release_package_outcome(cfg, day, st, rel, fault) ==
    IF "release_file" \in DOMAIN cfg.target
    THEN build_release_package(cfg, day, st, rel, fault)
    ELSE [release |-> rel, ret |-> NoneValue, raised |-> FALSE, err |-> FALSE]

\* create_metadata_package when the target has a metadata_file template
build_metadata_package(cfg, day, rel, fault_zip, fault_tar) ==
    LET f == format(cfg.target["metadata_file"],
                [k \in {"{author}", "{core}", "{version}", "{date}"} |->
                    CASE k = "{author}" -> cfg.author
                      [] k = "{core}" -> cfg.name
                      [] k = "{version}" -> last_segment(GITHUB_REF)
                      [] k = "{date}" -> strftime_Ymd(day)])
        meta == lower(f.text)
        z == write_archive(meta_folder_path, meta_folder, rel, meta \o zip_ext,
                           "zip", fault_zip)
        g == write_archive(meta_folder_path, meta_folder, z.tree,
                           meta \o tar_gz_ext, "tgz", fault_tar)
    IN  IF ~f.ok
        THEN [release |-> rel, ret |-> NoneValue, raised |-> TRUE, err |-> FALSE]
        ELSE [release |-> g.tree, ret |-> Some(meta \o zip_ext),
              raised |-> FALSE, err |-> z.err \/ g.err]

\* the body of create_metadata_package
create_metadata_package_outcome(cfg, day, rel, fault_zip, fault_tar) ==
    IF "metadata_file" \in DOMAIN cfg.target
    THEN build_metadata_package(cfg, day, rel, fault_zip, fault_tar)
    ELSE [release |-> rel, ret |-> NoneValue, raised |-> FALSE, err |-> FALSE]

----------------------------------------------------------------------------
(* helpers/release.py: create_gh_release *)

\* os.getenv("GITHUB_REF_NAME"): the short name of the ref of the run
GITHUB_REF_NAME == ref_name

\* a release as the API reports it; upload_url stands for the release's
\* asset endpoint, assets for the names of the assets it holds
Release(tag, url, assets) == [tag_name |-> tag, upload_url |-> url, assets |-> assets]

\* a request sent to the API with the status of its response; url is the
\* asset endpoint an upload goes to and 0 for a request to /releases
Request(kind, arg, url, status) ==
    [kind |-> kind, arg |-> arg, url |-> url, status |-> status]

\* requests.get(f"{gh_url}/repos/{repo}/releases") carries no page
\* parameters: the response holds the first page of the repository's
\* releases, newest first, 30 to a page
first_page(rs) == SubSeq(rs, 1, IF Len(rs) < 30 THEN Len(rs) ELSE 30)

HasTag(rs, tag) == \E i \in 1 .. Len(rs) : rs[i].tag_name = tag

\* release_exists: the first release of the response with this tag_name,
\* or an exception when the status is not 200
release_exists_outcomes(rs, tag) ==
    LET page == first_page(rs)
        hits == {i \in 1 .. Len(page) : page[i].tag_name = tag}
        first == CHOOSE i \in hits : \A j \in hits : i <= j
    IN  {[request |-> Request("list", << >>, 0, 200), exists |-> hits # {},
          url |-> IF hits # {} THEN page[first].upload_url ELSE 0,
          raised |-> FALSE],
         [request |-> Request("list", << >>, 0, 500), exists |-> FALSE,
          url |-> 0, raised |-> TRUE]}

\* create_release: the API refuses a tag that already has a release (422)
\* and may fail otherwise; 201 carries the new release
create_release_outcomes(rs, tag) ==
    IF HasTag(rs, tag)
    THEN {[request |-> Request("create", tag, 0, 422), remote |-> rs,
           url |-> 0, raised |-> TRUE]}
    ELSE {[request |-> Request("create", tag, 0, 201),
           remote |-> <<Release(tag, Len(rs) + 1, {})>> \o rs,
           url |-> Len(rs) + 1, raised |-> FALSE],
          [request |-> Request("create", tag, 0, 500), remote |-> rs,
           url |-> 0, raised |-> TRUE]}

\* get_upload_url: the upload_url of the release found, else of a new one
get_upload_url_outcomes(rs, tag) ==
    UNION {
        IF e.raised
        THEN {[requests |-> <<e.request>>, remote |-> rs, url |-> 0, raised |-> TRUE]}
        ELSE IF e.exists
             THEN {[requests |-> <<e.request>>, remote |-> rs, url |-> e.url,
                    raised |-> FALSE]}
             ELSE {[requests |-> <<e.request, c.request>>, remote |-> c.remote,
                    url |-> c.url, raised |-> c.raised]
                   : c \in create_release_outcomes(rs, tag)}
        : e \in release_exists_outcomes(rs, tag)}

\* the release an asset endpoint belongs to, with one more asset
AddAsset(rs, url, name) ==
    [i \in 1 .. Len(rs) |->
        IF rs[i].upload_url = url
        THEN [rs[i] EXCEPT !.assets = rs[i].assets \cup {name}]
        ELSE rs[i]]

\* upload_asset: open(file_path, 'rb') raises when the file is missing and
\* nothing is sent; the API refuses a name the release already holds (422)
\* and may fail otherwise; any status but 201 raises
upload_asset_outcomes(rel, rs, url, name) ==
    IF ~IsFile(rel, <<name>>)
    THEN {[sent |-> FALSE, request |-> Request("upload", name, url, 0),
           remote |-> rs, raised |-> TRUE]}
    ELSE IF \E i \in 1 .. Len(rs) : rs[i].upload_url = url /\ name \in rs[i].assets
         THEN {[sent |-> TRUE, request |-> Request("upload", name, url, 422),
                remote |-> rs, raised |-> TRUE]}
         ELSE {[sent |-> TRUE, request |-> Request("upload", name, url, 201),
                remote |-> AddAsset(rs, url, name), raised |-> FALSE],
               [sent |-> TRUE, request |-> Request("upload", name, url, 500),
                remote |-> rs, raised |-> TRUE]}

\* the file list as passed, None entries included
valid_files_unfiltered(files) == [k \in 1 .. Len(files) |-> files[k].name]

\* valid_files = [f for f in files if f is not None]
valid_files(files) ==
    LET idx == {i \in 1 .. Len(files) : files[i].some}
        nth(k) == CHOOSE i \in idx : Cardinality({j \in idx : j <= i}) = k
    IN  [k \in 1 .. Cardinality(idx) |-> files[nth(k)].name]

RECURSIVE upload_loop(_, _, _, _, _, _)

\* a file whose upload fails is skipped and the loop goes on
upload_loop_skipping(rel, rs, url, valid, reqs, urls) ==
    IF valid = << >>
    THEN {[remote |-> rs, requests |-> reqs, urls |-> urls, raised |-> FALSE]}
    ELSE UNION {
            upload_loop(rel, u.remote, url, Tail(valid),
                        IF u.sent THEN Append(reqs, u.request) ELSE reqs,
                        IF u.raised THEN urls ELSE Append(urls, Head(valid)))
            : u \in upload_asset_outcomes(rel, rs, url, Head(valid))}

\* for release_file in valid_files: upload_asset(...) and the append of its
\* browser_download_url; an exception leaves the loop and the function
upload_loop(rel, rs, url, valid, reqs, urls) ==
    IF valid = << >>
    THEN {[remote |-> rs, requests |-> reqs, urls |-> urls, raised |-> FALSE]}
    ELSE UNION {
            IF u.raised
            THEN {[remote |-> u.remote,
                   requests |-> IF u.sent THEN Append(reqs, u.request) ELSE reqs,
                   urls |-> << >>, raised |-> TRUE]}
            ELSE upload_loop(rel, u.remote, url, Tail(valid),
                             Append(reqs, u.request), Append(urls, Head(valid)))
            : u \in upload_asset_outcomes(rel, rs, url, Head(valid))}

\* the body of create_gh_release: without valid files nothing is sent;
\* otherwise the release is resolved and the files are uploaded in order
create_gh_release_outcomes(rel, files, rs) ==
    LET valid == valid_files(files)
    IN  IF valid = << >>
        THEN {[remote |-> rs, requests |-> << >>, urls |-> << >>, raised |-> FALSE]}
        ELSE UNION {
                IF g.raised
                THEN {[remote |-> g.remote, requests |-> g.requests,
                       urls |-> << >>, raised |-> TRUE]}
                ELSE upload_loop(rel, g.remote, g.url, valid, g.requests, << >>)
                : g \in get_upload_url_outcomes(rs, GITHUB_REF_NAME)}

----------------------------------------------------------------------------
(* Inputs *)

NewData == Bin(<<2>>)

OldData == Bin(<<9>>)

CoreJson(c) == FileNode(Json(c, <<"0">>, << >>))

\* pkg_folder/<target>: a complete package
P_full ==
    Tree({<< << >>, DirNode >>,
          << <<n_a_png>>, FileNode(NewData) >>,
          << <<n_b_rbf>>, FileNode(NewData) >>,
          << <<n_c_txt>>, FileNode(NewData) >>,
          << <<n_doc>>, FileNode(NewData) >>,
          << <<n_gitkeep>>, FileNode(NewData) >>,
          << <<n_hid>>, DirNode >>,
          << <<n_hid, n_a_png>>, FileNode(NewData) >>,
          << <<n_Cores>>, DirNode >>,
          << <<n_Cores, core_folder>>, DirNode >>,
          << <<n_Cores, core_folder, n_x_rom>>, FileNode(NewData) >>,
          << core_json_path, CoreJson("ok") >>})

\* a package whose core.json has no core.metadata
P_nometa ==
    Tree({<< << >>, DirNode >>,
          << <<n_a_png>>, FileNode(NewData) >>,
          << <<n_c_txt>>, FileNode(NewData) >>,
          << <<n_Cores>>, DirNode >>,
          << <<n_Cores, core_folder>>, DirNode >>,
          << core_json_path, CoreJson("nometa") >>})

\* a package without a Cores folder
P_nocore ==
    Tree({<< << >>, DirNode >>,
          << <<n_x_rom>>, FileNode(NewData) >>,
          << <<n_c_txt>>, FileNode(NewData) >>})

\* a package with a directory whose name matches "*.png"
P_pngdir ==
    Tree({<< << >>, DirNode >>,
          << <<n_a_png>>, DirNode >>,
          << <<n_a_png, n_c_txt>>, FileNode(NewData) >>,
          << <<n_x_rom>>, FileNode(NewData) >>,
          << <<n_Cores>>, DirNode >>,
          << <<n_Cores, core_folder>>, DirNode >>,
          << core_json_path, CoreJson("ok") >>})

PkgTrees == {P_full, P_nometa, P_nocore, P_pngdir}

\* what an earlier run left in the stage folder
S_old ==
    Tree({<< << >>, DirNode >>,
          << <<n_doc>>, DirNode >>,
          << <<n_c_txt>>, FileNode(OldData) >>})

PriorStages == {Absent, EmptyDir, S_old}

\* what an earlier run left in the release folder
R_old ==
    Tree({<< << >>, DirNode >>,
          << <<n_old \o zip_ext>>, FileNode([form |-> "zip", members |-> NoMembers]) >>})

PriorReleases == {Absent, EmptyDir, R_old}

\* output_folder/<name>_<target>.rbf
OutputFiles ==
    {[readable |-> FALSE, bytes |-> << >>],
     [readable |-> TRUE, bytes |-> << >>],
     [readable |-> TRUE, bytes |-> <<1, 192>>]}

Days == {[y |-> 2024, m |-> 3, d |-> 9]}

\* the stage folder of the clean-up example
T_example ==
    Tree({<< << >>, DirNode >>,
          << <<n_a_png>>, FileNode(OldData) >>,
          << <<n_b_rbf>>, FileNode(OldData) >>,
          << <<n_c_txt>>, FileNode(OldData) >>})

StagerDests == PriorStages \cup {T_example, P_full, P_pngdir}

----------------------------------------------------------------------------
(* pocket.py: main *)

\* the calls of main, in program order
Order ==
    <<"create_folders", "copy_packaging_folder", "clean_up_files",
      "update_apf_core_json", "reverse_bitstream", "create_release_package",
      "create_metadata_package", "create_gh_release">>

\* the pipeline state reached when the k-th call has returned
StateAfter ==
    <<"FoldersCleared", "Staged", "Cleaned", "MetadataUpdated",
      "BitstreamReversed", "ReleasePackaged", "PackagesBuilt", "Done">>

HarnessIdle ==
    /\ src_bytes = << >> /\ byte_array = << >> /\ passes = 0
    /\ calls = << >> /\ raised = FALSE

\* the state after read_gateware_json
Init ==
    /\ pc = "Init"
    /\ steps = << >>
    /\ errors = {}
    /\ config \in Configs
    /\ norelease = FALSE
    /\ ref_name = DefaultTag
    /\ today \in Days
    /\ pkg \in PkgTrees
    /\ stage \in PriorStages
    /\ release \in PriorReleases
    /\ output_rbf \in OutputFiles
    /\ residue = {}
    /\ pkg_file = NoneValue
    /\ meta_file = NoneValue
    /\ uploaded = << >>
    /\ remote = << >>
    /\ requests = << >>
    /\ HarnessIdle

\* the run goes back to staging once the bitstream is reversed
After_back(step, exc) ==
    IF exc THEN "Aborted" ELSE IF step = 5 THEN "FoldersCleared" ELSE StateAfter[step]

\* a raised exception ends the run
After(step, exc) == IF exc THEN "Aborted" ELSE StateAfter[step]

Log(name, err) ==
    /\ steps' = Append(steps, name)
    /\ errors' = IF err THEN errors \cup {name} ELSE errors

create_folders ==
    /\ pc = "Init"
    /\ \E o \in create_folders_outcomes(stage, release) :
          /\ stage' = o.stage
          /\ release' = o.release
          /\ residue' = (DOMAIN o.stage) \ {<< >>}
          /\ Log("create_folders", o.err)
    /\ pc' = After(1, FALSE)
    /\ UNCHANGED <<config, norelease, ref_name, today, pkg, output_rbf, pkg_file, meta_file, uploaded>>
    /\ UNCHANGED <<bitVars, stagerVars, remote, requests>>

copy_packaging_folder ==
    /\ pc = "FoldersCleared"
    /\ \E o \in copy_packaging_folder_outcomes(pkg, stage) :
          /\ stage' = o.tree
          /\ pc' = After(2, o.raised)
    /\ Log("copy_packaging_folder", FALSE)
    /\ UNCHANGED <<config, norelease, ref_name, today, pkg, release, output_rbf, residue, pkg_file,
                   meta_file, uploaded>>
    /\ UNCHANGED <<bitVars, stagerVars, remote, requests>>

clean_up_files ==
    /\ pc = "Staged"
    /\ \E o \in clean_up_files_outcomes(stage) :
          /\ stage' = o.tree
          /\ pc' = After(3, o.raised)
    /\ Log("clean_up_files", FALSE)
    /\ UNCHANGED <<config, norelease, ref_name, today, pkg, release, output_rbf, residue, pkg_file,
                   meta_file, uploaded>>
    /\ UNCHANGED <<bitVars, stagerVars, remote, requests>>

update_apf_core_json ==
    /\ pc = "Cleaned"
    /\ LET o == update_apf_core_json_outcome(stage, today)
       IN  /\ stage' = o.tree
           /\ pc' = After(4, o.raised)
           /\ Log("update_apf_core_json", o.err)
    /\ UNCHANGED <<config, norelease, ref_name, today, pkg, release, output_rbf, residue, pkg_file,
                   meta_file, uploaded>>
    /\ UNCHANGED <<bitVars, stagerVars, remote, requests>>

reverse_bitstream ==
    /\ pc = "MetadataUpdated"
    /\ \E wfail \in BOOLEAN :
          LET o == reverse_bitstream_outcome(stage, output_rbf, wfail)
          IN  /\ stage' = o.tree
              /\ Log("reverse_bitstream", o.err)
    /\ pc' = After(5, FALSE)
    /\ UNCHANGED <<config, norelease, ref_name, today, pkg, release, output_rbf, residue, pkg_file,
                   meta_file, uploaded>>
    /\ UNCHANGED <<bitVars, stagerVars, remote, requests>>

create_release_package ==
    /\ pc = "BitstreamReversed"
    /\ \E fault \in WriteFaults :
          LET o == create_release_package_outcome(config, today, stage, release, fault)
          IN  /\ release' = o.release
              /\ pkg_file' = o.ret
              /\ pc' = After(6, o.raised)
              /\ Log("create_release_package", o.err)
    /\ UNCHANGED <<config, norelease, ref_name, today, pkg, stage, output_rbf, residue, meta_file, uploaded>>
    /\ UNCHANGED <<bitVars, stagerVars, remote, requests>>

create_metadata_package ==
    /\ pc = "ReleasePackaged"
    /\ \E fault_zip \in WriteFaults, fault_tar \in WriteFaults :
          LET o == create_metadata_package_outcome(config, today, release,
                                                   fault_zip, fault_tar)
          IN  /\ release' = o.release
              /\ meta_file' = o.ret
              /\ pc' = After(7, o.raised)
              /\ Log("create_metadata_package", o.err)
    /\ UNCHANGED <<config, norelease, ref_name, today, pkg, stage, output_rbf, residue, pkg_file, uploaded>>
    /\ UNCHANGED <<bitVars, stagerVars, remote, requests>>

create_gh_release ==
    /\ pc = "PackagesBuilt"
    /\ \E o \in create_gh_release_outcomes(release, <<pkg_file, meta_file>>, remote) :
          /\ uploaded' = o.urls
          /\ remote' = o.remote
          /\ requests' = o.requests
          /\ pc' = After(8, o.raised)
    /\ Log("create_gh_release", FALSE)
    /\ UNCHANGED <<config, norelease, ref_name, today, pkg, stage, release, output_rbf, residue,
                   pkg_file, meta_file>>
    /\ UNCHANGED <<bitVars, stagerVars>>

Next ==
    \/ create_folders
    \/ copy_packaging_folder
    \/ clean_up_files
    \/ update_apf_core_json
    \/ reverse_bitstream
    \/ create_release_package
    \/ create_metadata_package
    \/ create_gh_release

Spec == Init /\ [][Next]_vars


----------------------------------------------------------------------------
(* The bit reversal of reverse_bitstream applied to arbitrary buffers *)

PipelineIdle ==
    /\ pc = "Idle" /\ steps = << >> /\ errors = {}
    /\ config = MetadataOnlyConfig
    /\ norelease = FALSE
    /\ ref_name = DefaultTag
    /\ today \in Days
    /\ release = Absent /\ output_rbf = [readable |-> FALSE, bytes |-> << >>]
    /\ residue = {} /\ pkg_file = NoneValue /\ meta_file = NoneValue
    /\ uploaded = << >> /\ remote = << >> /\ requests = << >>

InitBits ==
    /\ PipelineIdle
    /\ pkg = Absent /\ stage = Absent
    /\ src_bytes \in ByteBuffers
    /\ byte_array = src_bytes
    /\ passes = 0
    /\ calls = << >> /\ raised = FALSE

\* byte_array = bytearray(file.read()); the loop; file.write(byte_array),
\* the file written being read back by the next pass
reverse_pass ==
    /\ passes < MaxPasses
    /\ byte_array' = reverse_loop(byte_array, 1)
    /\ passes' = passes + 1
    /\ UNCHANGED <<src_bytes, pipeVars, stagerVars>>

NextBits == reverse_pass

SpecBits == InitBits /\ [][NextBits]_vars

----------------------------------------------------------------------------
(* copy_packaging_folder and clean_up_files applied to arbitrary folders *)

InitStager ==
    /\ PipelineIdle
    /\ pkg \in PkgTrees
    /\ stage \in StagerDests
    /\ src_bytes = << >> /\ byte_array = << >> /\ passes = 0
    /\ calls = << >>
    /\ raised = FALSE

stager_copy ==
    /\ Len(calls) < MaxCalls
    /\ \E o \in copy_packaging_folder_outcomes(pkg, stage) :
          /\ stage' = o.tree
          /\ raised' = o.raised
    /\ calls' = Append(calls, "copy_packaging_folder")
    /\ UNCHANGED <<pc, steps, errors, config, norelease, ref_name, today, pkg, release, output_rbf,
                   residue, pkg_file, meta_file, uploaded, remote, requests, bitVars>>

stager_clean ==
    /\ Len(calls) < MaxCalls
    /\ \E o \in clean_up_files_outcomes(stage) :
          /\ stage' = o.tree
          /\ raised' = o.raised
    /\ calls' = Append(calls, "clean_up_files")
    /\ UNCHANGED <<pc, steps, errors, config, norelease, ref_name, today, pkg, release, output_rbf,
                   residue, pkg_file, meta_file, uploaded, remote, requests, bitVars>>

NextStager ==
    \/ stager_copy
    \/ stager_clean

SpecStager == InitStager /\ [][NextStager]_vars


----------------------------------------------------------------------------
(* create_gh_release applied to release folders and repositories of any kind *)

n_a_zip == <<"a">> \o zip_ext

n_b_zip == <<"b">> \o zip_ext

AnArchive == FileNode([form |-> "zip", members |-> NoMembers])

\* release folders: both packages written, the second one missing
ReleaseFolders ==
    {Tree({<< << >>, DirNode >>, << <<n_a_zip>>, AnArchive >>,
           << <<n_b_zip>>, AnArchive >>}),
     Tree({<< << >>, DirNode >>, << <<n_a_zip>>, AnArchive >>})}

OtherTag == <<"V", "0", ".", "9">>

\* a repository with more than one page of releases, the release of this
\* run's tag being the oldest
LongHistory ==
    [i \in 1 .. 31 |->
        IF i <= 30 THEN Release(<<"r">> \o Digits(i, 2), 32 - i, {})
        ELSE Release(GITHUB_REF_NAME, 1, {})]

\* the releases of the repository, newest first
RemoteReleases ==
    {<< >>,
     <<Release(OtherTag, 1, {})>>,
     <<Release(GITHUB_REF_NAME, 1, {})>>,
     <<Release(OtherTag, 2, {}), Release(GITHUB_REF_NAME, 1, {n_a_zip})>>,
     LongHistory}

InitRelease ==
    /\ pc = "Idle" /\ steps = << >> /\ errors = {}
    /\ config = MetadataOnlyConfig
    /\ norelease = FALSE
    /\ ref_name = DefaultTag
    /\ today \in Days
    /\ pkg = Absent /\ stage = Absent
    /\ output_rbf = [readable |-> FALSE, bytes |-> << >>]
    /\ residue = {}
    /\ release \in ReleaseFolders
    /\ pkg_file \in {NoneValue, Some(n_a_zip)}
    /\ meta_file \in {NoneValue, Some(n_b_zip)}
    /\ uploaded = << >>
    /\ remote \in RemoteReleases
    /\ requests = << >>
    /\ src_bytes = << >> /\ byte_array = << >> /\ passes = 0
    /\ calls = << >>
    /\ raised = FALSE

\* create_gh_release(config, [pkg_file, meta_file]), run again by a later
\* run of the workflow for the same tag
gh_release_call ==
    /\ Len(calls) < MaxCalls
    /\ \E o \in create_gh_release_outcomes(release, <<pkg_file, meta_file>>, remote) :
          /\ uploaded' = o.urls
          /\ remote' = o.remote
          /\ requests' = o.requests
          /\ raised' = o.raised
    /\ calls' = Append(calls, "create_gh_release")
    /\ UNCHANGED <<pc, steps, errors, config, norelease, ref_name, today, pkg, stage, release,
                   output_rbf, residue, pkg_file, meta_file, bitVars>>

NextRelease == gh_release_call

SpecRelease == InitRelease /\ [][NextRelease]_vars

----------------------------------------------------------------------------
(* release.py: main *)

\* def create_release_package(config): / def create_metadata_package(config):
create_release_package_params == <<"config">>

create_metadata_package_params == <<"config">>

\* a call with positional arguments of a function that has neither defaults
\* nor *args: any other number of arguments than parameters is a TypeError
binds(params, args) == Len(args) = Len(params)

Outcome(rel, pf, mf, rs, reqs, urls, called, errs, exc) ==
    [release |-> rel, pkg_file |-> pf, meta_file |-> mf, remote |-> rs,
     requests |-> reqs, uploaded |-> urls, steps |-> called, errors |-> errs,
     raised |-> exc]

\* the part of main after create_metadata_package(config, "pocket")
release_main_publish(rel, pf, mf, rs, errs, norel) ==
    IF norel
    THEN {Outcome(rel, pf, mf, rs, << >>, << >>,
                  <<"create_release_package", "create_metadata_package">>,
                  errs, FALSE)}
    ELSE {Outcome(rel, pf, mf, g.remote, g.requests, g.urls,
                  <<"create_release_package", "create_metadata_package",
                    "create_gh_release">>, errs, g.raised)
          : g \in create_gh_release_outcomes(rel, <<pf, mf>>, rs)}

\* the part of main after create_release_package(config, "pocket")
release_main_metadata(cfg, day, rel, pf, rs, errs, norel) ==
    IF ~binds(create_metadata_package_params, <<"config", "pocket">>)
    THEN {Outcome(rel, pf, NoneValue, rs, << >>, << >>,
                  <<"create_release_package", "create_metadata_package">>,
                  errs, TRUE)}
    ELSE UNION {
            LET m == create_metadata_package_outcome(cfg, day, rel, fz, ft)
                errs2 == IF m.err THEN errs \cup {"create_metadata_package"} ELSE errs
            IN  IF m.raised
                THEN {Outcome(m.release, pf, NoneValue, rs, << >>, << >>,
                              <<"create_release_package", "create_metadata_package">>,
                              errs2, TRUE)}
                ELSE release_main_publish(m.release, pf, m.ret, rs, errs2, norel)
            : fz \in WriteFaults, ft \in WriteFaults}

\* the body of main: create_release_package(config, "pocket"),
\* create_metadata_package(config, "pocket") and, unless --norelease,
\* create_gh_release(config, [pkg_file, meta_file])
release_main_outcomes(cfg, day, st, rel, rs, norel) ==
    IF ~binds(create_release_package_params, <<"config", "pocket">>)
    THEN {Outcome(rel, NoneValue, NoneValue, rs, << >>, << >>,
                  <<"create_release_package">>, {}, TRUE)}
    ELSE UNION {
            LET r == create_release_package_outcome(cfg, day, st, rel, f)
                errs == IF r.err THEN {"create_release_package"} ELSE {}
            IN  IF r.raised
                THEN {Outcome(r.release, NoneValue, NoneValue, rs, << >>, << >>,
                              <<"create_release_package">>, errs, TRUE)}
                ELSE release_main_metadata(cfg, day, r.release, r.ret, rs, errs, norel)
            : f \in WriteFaults}

\* the stage folder an earlier build left for release.py
BuiltStages == {EmptyDir, T_example, P_full}

InitReleaseMain ==
    /\ pc = "Init" /\ steps = << >> /\ errors = {}
    /\ config \in Configs
    /\ norelease \in BOOLEAN
    /\ ref_name = DefaultTag
    /\ today \in Days
    /\ pkg = Absent
    /\ stage \in BuiltStages
    /\ release \in PriorReleases
    /\ output_rbf = [readable |-> FALSE, bytes |-> << >>]
    /\ residue = {}
    /\ pkg_file = NoneValue /\ meta_file = NoneValue
    /\ uploaded = << >>
    /\ remote \in {<< >>, <<Release(DefaultTag, 1, {})>>}
    /\ requests = << >>
    /\ HarnessIdle

\* python release.py [--norelease]
release_main ==
    /\ pc = "Init"
    /\ \E o \in release_main_outcomes(config, today, stage, release, remote, norelease) :
          /\ release' = o.release
          /\ pkg_file' = o.pkg_file
          /\ meta_file' = o.meta_file
          /\ remote' = o.remote
          /\ requests' = o.requests
          /\ uploaded' = o.uploaded
          /\ steps' = steps \o o.steps
          /\ errors' = errors \cup o.errors
          /\ pc' = IF o.raised THEN "Aborted" ELSE "Done"
    /\ UNCHANGED <<config, norelease, ref_name, today, pkg, stage, output_rbf, residue>>
    /\ UNCHANGED <<bitVars, stagerVars>>

NextReleaseMain == release_main

SpecReleaseMain == InitReleaseMain /\ [][NextReleaseMain]_vars

----------------------------------------------------------------------------
(* pocket.py run for any tag while the clock goes on *)

\* a tag whose name holds a "/"
SlashTag == <<"r", "/", "1">>

Tags == {DefaultTag, SlashTag}

\* a metadata template that names the date
metadata_dated_template == <<"{core}", "_", "{date}", "_", "{version}">>

DatedConfig ==
    TargetConfig({"release_file", "metadata_file"}, release_template,
                 metadata_dated_template)

\* the day after t, t not being the last day of its month
tomorrow(t) == [t EXCEPT !.d = t.d + 1]

InitClock ==
    /\ pc = "Init" /\ steps = << >> /\ errors = {}
    /\ config = DatedConfig
    /\ norelease = FALSE
    /\ ref_name \in Tags
    /\ today \in Days
    /\ pkg = P_full
    /\ stage \in {Absent, EmptyDir}
    /\ release \in {Absent, EmptyDir}
    /\ output_rbf = [readable |-> TRUE, bytes |-> <<1, 192>>]
    /\ residue = {}
    /\ pkg_file = NoneValue /\ meta_file = NoneValue
    /\ uploaded = << >>
    /\ remote = << >>
    /\ requests = << >>
    /\ HarnessIdle

\* midnight passes: date.today() gives the next day from now on
tick ==
    /\ today \in Days
    /\ pc \notin {"Done", "Aborted"}
    /\ today' = tomorrow(today)
    /\ UNCHANGED <<pc, steps, errors, config, norelease, ref_name, pkg, stage,
                   release, output_rbf, residue, pkg_file, meta_file, uploaded,
                   remote, requests, bitVars, stagerVars>>

NextClock ==
    \/ Next
    \/ tick

SpecClock == InitClock /\ [][NextClock]_vars

----------------------------------------------------------------------------
(* Properties *)

Matches(name) == \E k \in 1 .. Len(file_patterns) : fnmatch(name, file_patterns[k])

Bit(x, k) == (x \div (2 ^ k)) % 2

RECURSIVE MirrorSum(_, _)
MirrorSum(x, k) ==
    IF k > 7 THEN 0 ELSE Bit(x, k) * (2 ^ (7 - k)) + MirrorSum(x, k + 1)

\* C1: the calls of main happen in program order, each at most once and
\* none again: the calls made so far are a prefix of Order, and the pipeline
\* state is the one that follows the last call made, unless the run aborted.
C1_StrictOrder ==
    /\ Len(steps) <= Len(Order)
    /\ steps = SubSeq(Order, 1, Len(steps))
    /\ pc = "Aborted" \/ pc = (IF steps = << >> THEN "Init" ELSE StateAfter[Len(steps)])

C1_Witness == pc = "Done" /\ steps = Order

\* C2: a step of the pipeline that hits an I/O error is the last step of the
\* run: when create_folders or reverse_bitstream has hit one, no later call
\* has been made.
C2_FailureAborts ==
    \A i \in 1 .. Len(steps) :
        (steps[i] \in errors /\ steps[i] \in {"create_folders", "reverse_bitstream"})
            => i = Len(steps)

\* C3: reversing the bits of every byte twice gives the buffer back.
C3_Involution == passes = 2 => byte_array = src_bytes

C3_Witness == passes = 2 /\ src_bytes = <<192>> /\ byte_array = <<192>>

\* C4: after one pass every byte is in 0..255 and has at bit i the bit the
\* source byte has at 7 - i, which is the sum of ((x >> i) & 1) << (7 - i);
\* 0x80 gives 0x01, 0xC0 gives 0x03, 0x00 gives 0x00 and 0xFF gives 0xFF.
C4_MirrorBits ==
    passes = 1 =>
        /\ \A i \in 1 .. Len(src_bytes) :
              /\ byte_array[i] \in 0 .. 255
              /\ \A k \in 0 .. 7 : Bit(byte_array[i], k) = Bit(src_bytes[i], 7 - k)
              /\ byte_array[i] = MirrorSum(src_bytes[i], 0)
        /\ src_bytes = <<128>> => byte_array = <<1>>
        /\ src_bytes = <<192>> => byte_array = <<3>>
        /\ src_bytes = <<0>> => byte_array = <<0>>
        /\ src_bytes = <<255>> => byte_array = <<255>>

C4_Witness == passes = 1 /\ src_bytes = <<192>> /\ byte_array = <<3>>

\* C5: the reversed buffer has the length of the source, the byte at index k
\* is the reversal of the source byte at index k, and an empty source gives
\* an empty result.
C5_LengthAndOrder ==
    passes = 1 =>
        /\ Len(byte_array) = Len(src_bytes)
        /\ \A k \in 1 .. Len(src_bytes) : byte_array[k] = MirrorSum(src_bytes[k], 0)
        /\ src_bytes = << >> => byte_array = << >>

C5_Witness == passes = 1 /\ src_bytes = <<1, 192>> /\ byte_array = <<128, 3>>

\* C6: when create_folders has returned, the stage folder and the release
\* folder hold nothing.
C6_NoLeftovers ==
    pc = "FoldersCleared" =>
        /\ (DOMAIN stage) \subseteq {<< >>}
        /\ (DOMAIN release) \subseteq {<< >>}

C8_NoUnwantedFiles ==
    pc = "Cleaned" => \A p \in Files(stage) : ~Matches(Base(p))

C10_UnionMerge ==
    [][(steps' = Append(steps, "copy_packaging_folder") /\ pc' = "Staged") =>
          /\ Exists(stage', << >>)
          /\ \A p \in Files(pkg) : IsFile(stage', p) /\ stage'[p].data = pkg[p].data
          /\ \A p \in DOMAIN stage :
                p \notin DOMAIN pkg => (p \in DOMAIN stage' /\ stage'[p] = stage[p])]_vars


MembersOf(t) == [p \in Files(t) |-> t[p].data]

Called(name) == \E i \in 1 .. Len(steps) : steps[i] = name

\* the name of the .tar.gz written next to the .zip of this name
TarName(zipname) == SubSeq(zipname, 1, Len(zipname) - Len(zip_ext)) \o tar_gz_ext

\* C12: an archive written without error holds exactly the regular files
\* found at any depth under its source folder, each under its path relative
\* to that folder and with its content: the release zip holds the files of
\* the stage folder, and the metadata zip and tar.gz hold the files of the
\* meta folder under the same member names.
C12_ArchiveMembers ==
    /\ (Called("create_release_package") /\ pkg_file.some
            /\ "create_release_package" \notin errors)
          => /\ IsFile(release, <<pkg_file.name>>)
             /\ release[<<pkg_file.name>>].data.form = "zip"
             /\ release[<<pkg_file.name>>].data.members = MembersOf(stage)
    /\ (Called("create_metadata_package") /\ meta_file.some
            /\ "create_metadata_package" \notin errors)
          => /\ IsFile(release, <<meta_file.name>>)
             /\ IsFile(release, <<TarName(meta_file.name)>>)
             /\ release[<<meta_file.name>>].data.form = "zip"
             /\ release[<<TarName(meta_file.name)>>].data.form = "tgz"
             /\ release[<<meta_file.name>>].data.members = MembersOf(meta_folder)
             /\ DOMAIN release[<<TarName(meta_file.name)>>].data.members
                    = DOMAIN release[<<meta_file.name>>].data.members
             /\ release[<<TarName(meta_file.name)>>].data.members
                    = MembersOf(meta_folder)

C12_Witness ==
    /\ pc = "PackagesBuilt"
    /\ errors = {}
    /\ pkg_file.some /\ meta_file.some
    /\ reverse_rbf_file \in DOMAIN release[<<pkg_file.name>>].data.members
    /\ <<n_c_txt>> \in DOMAIN release[<<pkg_file.name>>].data.members
    /\ DOMAIN release[<<TarName(meta_file.name)>>].data.members
           = {<<n_c_txt>>, <<n_doc, n_a_png>>, <<n_doc, n_hid>>}

\* C13: a packaging call that failed to write an archive is the last call
\* of the run, the run is aborted and the call returned no filename.
C13_WriteFailureAborts ==
    \A i \in 1 .. Len(steps) :
        (steps[i] \in errors
            /\ steps[i] \in {"create_release_package", "create_metadata_package"})
          => /\ i = Len(steps)
             /\ pc = "Aborted"
             /\ steps[i] = "create_release_package" => pkg_file = NoneValue
             /\ steps[i] = "create_metadata_package" => meta_file = NoneValue

\* C14: when update_apf_core_json has found core.json without core.metadata
\* the run is aborted and no later call has been made.
C14_MissingMetadataAborts ==
    "update_apf_core_json" \in errors
        => /\ pc = "Aborted"
           /\ steps[Len(steps)] = "update_apf_core_json"

\* the fields the filename templates may use
FixedFields == {"{author}", "{core}", "{version}", "{date}", "{target}"}

HasUnknownField(template) ==
    \E i \in 1 .. Len(template) : template[i] \in ReplacementFields \ FixedFields

HasPlaceholder(name) == \E i \in 1 .. Len(name) : name[i] \in ReplacementFields

\* C15: a packaging call whose template names a field outside the fixed set
\* ends the run with an error, returns no filename and leaves the release
\* folder as it was; no filename a packaging call returns holds a
\* replacement field.
C15_UnknownFieldFails ==
    [][/\ (/\ steps' = Append(steps, "create_release_package")
           /\ "release_file" \in DOMAIN config.target
           /\ HasUnknownField(config.target["release_file"]))
          => (pc' = "Aborted" /\ pkg_file' = NoneValue /\ release' = release)
       /\ (/\ steps' = Append(steps, "create_metadata_package")
           /\ "metadata_file" \in DOMAIN config.target
           /\ HasUnknownField(config.target["metadata_file"]))
          => (pc' = "Aborted" /\ meta_file' = NoneValue /\ release' = release)
       /\ ~HasPlaceholder(pkg_file'.name)
       /\ ~HasPlaceholder(meta_file'.name)]_vars

C15_Witness ==
    /\ pc = "Aborted"
    /\ steps[Len(steps)] = "create_release_package"
    /\ "release_file" \in DOMAIN config.target
    /\ config.target["release_file"] = platform_template
    /\ pkg_file = NoneValue
    /\ release = EmptyDir

\* C16: a metadata_file template that uses {target} renders with the target
\* substituted: create_metadata_package returns <core>-<target>_<version>.zip
\* in lower case and the run goes on.
C16_MetadataTargetRenders ==
    (/\ Called("create_metadata_package")
     /\ "metadata_file" \in DOMAIN config.target
     /\ config.target["metadata_file"] = metadata_target_template)
        => /\ pc # "Aborted"
           /\ meta_file = Some(<<"c", "o", "-", "p", "o", "c", "k", "e", "t", "_",
                                 "v", "1", ".", "0">> \o zip_ext)

\* C17: a packaging call whose template is not configured returns None,
\* leaves the release folder as it was, reports no error and lets the run go
\* on; the package whose template is configured is built by its call unless
\* writing it fails.
C17_MissingTemplateSkips ==
    [][/\ (/\ steps' = Append(steps, "create_release_package")
           /\ "release_file" \notin DOMAIN config.target)
          => /\ pkg_file' = NoneValue /\ release' = release
             /\ errors' = errors /\ pc' = "ReleasePackaged"
       /\ (/\ steps' = Append(steps, "create_metadata_package")
           /\ "metadata_file" \notin DOMAIN config.target)
          => /\ meta_file' = NoneValue /\ release' = release
             /\ errors' = errors /\ pc' = "PackagesBuilt"
       /\ (/\ steps' = Append(steps, "create_metadata_package")
           /\ config = MetadataOnlyConfig
           /\ "create_metadata_package" \notin errors')
          => /\ pkg_file' = NoneValue
             /\ meta_file'.some
             /\ IsFile(release', <<meta_file'.name>>)
             /\ IsFile(release', <<TarName(meta_file'.name)>>)
       /\ (/\ steps' = Append(steps, "create_release_package")
           /\ DOMAIN config.target = {"release_file"}
           /\ "create_release_package" \notin errors')
          => /\ pkg_file'.some
             /\ IsFile(release', <<pkg_file'.name>>)]_vars

C17_Witness ==
    /\ pc = "PackagesBuilt"
    /\ config = MetadataOnlyConfig
    /\ errors = {}
    /\ pkg_file = NoneValue
    /\ meta_file.some
    /\ DOMAIN release = {<< >>, <<meta_file.name>>, <<TarName(meta_file.name)>>}

NoUpper(name) ==
    \A i \in 1 .. Len(name) : \A k \in 1 .. Len(UpperChars) : name[i] # UpperChars[k]

\* C18: the filenames the packaging calls return, and the names of the files
\* in the release folder, hold no upper-case letter; with the templates
\* {author}.{core}_{version}_{date}-{target} and {core}-Meta_{version},
\* author Au, core Co, version V1.0 and target Pocket on 2024-03-09 the names
\* are au.co_v1.0_20240309-pocket.zip and co-meta_v1.0.zip.
C18_LowerCased ==
    /\ NoUpper(pkg_file.name)
    /\ NoUpper(meta_file.name)
    /\ \A p \in DOMAIN release : \A i \in 1 .. Len(p) : NoUpper(p[i])
    /\ (pkg_file.some /\ config.target["release_file"] = release_template)
          => pkg_file.name = <<"a", "u", ".", "c", "o", "_", "v", "1", ".", "0", "_",
                               "2", "0", "2", "4", "0", "3", "0", "9", "-",
                               "p", "o", "c", "k", "e", "t">> \o zip_ext
    /\ (meta_file.some /\ config.target["metadata_file"] = metadata_template)
          => meta_file.name = <<"c", "o", "-", "m", "e", "t", "a", "_",
                                "v", "1", ".", "0">> \o zip_ext

C18_Witness ==
    /\ pc = "PackagesBuilt"
    /\ pkg_file.some /\ meta_file.some
    /\ IsFile(release, <<pkg_file.name>>)
    /\ IsFile(release, <<TarName(meta_file.name)>>)
    /\ \E i \in 1 .. Len(config.target["metadata_file"]) :
          config.target["metadata_file"][i] = "M"


Creates(reqs) == {i \in 1 .. Len(reqs) : reqs[i].kind = "create"}

Uploads(reqs) == {i \in 1 .. Len(reqs) : reqs[i].kind = "upload"}

\* C19: a call of create_gh_release sends no create-release request when
\* the repository has a release with the run's tag and uploads to that
\* release; it sends exactly one when the repository has none and the
\* release query succeeded; every upload comes after the request that
\* resolved the release and all uploads go to one release, which carries the
\* run's tag.
C19_CreateOrFetch ==
    [][calls' = Append(calls, "create_gh_release") =>
          LET tagged == {i \in 1 .. Len(remote) : remote[i].tag_name = GITHUB_REF_NAME}
              reqs == requests'
          IN  /\ tagged # {} =>
                    /\ Creates(reqs) = {}
                    /\ \A i \in Uploads(reqs) :
                          \E j \in tagged : reqs[i].url = remote[j].upload_url
              /\ (tagged = {} /\ reqs # << >> /\ reqs[1].status = 200)
                    => Cardinality(Creates(reqs)) = 1
              /\ \A i \in Uploads(reqs) :
                    /\ \E k \in 1 .. i - 1 :
                          /\ reqs[k].kind \in {"list", "create"}
                          /\ \A m \in k + 1 .. i : reqs[m].kind = "upload"
                    /\ \A j \in Uploads(reqs) : reqs[j].url = reqs[i].url
                    /\ \E j \in 1 .. Len(remote') :
                          /\ remote'[j].upload_url = reqs[i].url
                          /\ remote'[j].tag_name = GITHUB_REF_NAME]_vars

Failed(r) == r.status # (IF r.kind = "list" THEN 200 ELSE 201)

\* C20: in a call of create_gh_release a request the API answers with a
\* failure status is the last request of the call, the call raises and
\* returns no download URLs; no request is sent twice, and the uploads sent
\* are the files of the call in their order.
C20_ApiFailureSurfaced ==
    [][calls' = Append(calls, "create_gh_release") =>
          LET reqs == requests'
              valid == valid_files(<<pkg_file, meta_file>>)
              ups == Uploads(reqs)
          IN  /\ \A i \in 1 .. Len(reqs) :
                    Failed(reqs[i]) => (i = Len(reqs) /\ raised' /\ uploaded' = << >>)
              /\ \A i \in 1 .. Len(reqs) : \A j \in 1 .. Len(reqs) :
                    (reqs[i].kind = reqs[j].kind /\ reqs[i].arg = reqs[j].arg) => i = j
              /\ Cardinality(ups) <= Len(valid)
              /\ \A i \in ups :
                    reqs[i].arg = valid[Cardinality({j \in ups : j <= i})]
              /\ ~raised' => (uploaded' = valid /\ \A i \in 1 .. Len(reqs) : ~Failed(reqs[i]))]_vars

C20_Witness ==
    /\ calls = <<"create_gh_release">>
    /\ raised
    /\ pkg_file.some /\ meta_file.some
    /\ IsFile(release, <<n_b_zip>>)
    /\ Len(requests) = 3
    /\ requests[2] = Request("create", GITHUB_REF_NAME, 0, 201)
    /\ requests[3] = Request("upload", n_a_zip, 1, 500)
    /\ uploaded = << >>


\* C21: when release.py has run with a configuration that has both
\* templates, create_release_package and create_metadata_package have been
\* called and each has returned a filename; with --norelease nothing was
\* sent to the release API and without it create_gh_release was called next.
C21_ReleaseEntryBuilds ==
    (/\ pc # "Init"
     /\ config = TargetConfig({"release_file", "metadata_file"},
                              release_template, metadata_template))
        => /\ Len(steps) >= 2
           /\ steps[1] = "create_release_package"
           /\ steps[2] = "create_metadata_package"
           /\ pkg_file.some /\ meta_file.some
           /\ norelease => (Len(steps) = 2 /\ requests = << >>)
           /\ ~norelease => (Len(steps) = 3 /\ steps[3] = "create_gh_release")


\* C22: a call of create_gh_release sends nothing, returns an empty list and
\* raises nothing when both entries are None; every upload it sends is for a
\* file of the list that is not None; the download URLs it returns are those
\* of the files that are not None, in the order of the list, one for each
\* and never more than the uploads that succeeded.
C22_SkippedNeverUploaded ==
    [][calls' = Append(calls, "create_gh_release") =>
          LET names == (IF pkg_file.some THEN <<pkg_file.name>> ELSE << >>)
                          \o (IF meta_file.some THEN <<meta_file.name>> ELSE << >>)
              done == {i \in Uploads(requests') : requests'[i].status = 201}
          IN  /\ (~pkg_file.some /\ ~meta_file.some)
                    => /\ requests' = << >> /\ uploaded' = << >>
                       /\ ~raised' /\ remote' = remote
              /\ \A i \in Uploads(requests') :
                    \E k \in 1 .. Len(names) : requests'[i].arg = names[k]
              /\ Len(uploaded') <= Cardinality(done)
              /\ Len(uploaded') <= Len(names)
              /\ \A k \in 1 .. Len(uploaded') : uploaded'[k] = names[k]
              /\ ~raised' => uploaded' = names]_vars

C22_Witness ==
    /\ calls = <<"create_gh_release">>
    /\ ~raised
    /\ pkg_file = NoneValue
    /\ meta_file = Some(n_b_zip)
    /\ uploaded = <<n_b_zip>>
    /\ Cardinality(Uploads(requests)) = 1


\* name holds the characters of part in a row
Contains(name, part) ==
    \E k \in 0 .. Len(name) - Len(part) : SubSeq(name, k + 1, k + Len(part)) = part

\* C23: the version written into core.json and substituted into the release
\* and metadata filenames is the tag of the run (GITHUB_REF_NAME), under
\* which create_gh_release resolves the release, whether or not the tag
\* holds a "/".
C23_VersionIsTag ==
    /\ (Called("update_apf_core_json") /\ "update_apf_core_json" \notin errors
            /\ IsFile(stage, core_json_path))
          => stage[core_json_path].data.version = GITHUB_REF_NAME
    /\ pkg_file.some => Contains(pkg_file.name, lower(GITHUB_REF_NAME))
    /\ meta_file.some => Contains(meta_file.name, lower(GITHUB_REF_NAME))

\* the days a run that starts on one of Days can see
RunDays == Days \cup {tomorrow(d) : d \in Days}

\* C24: when the packages are built, there is one day whose date is the
\* date_release of core.json and is in the release filename and in the
\* metadata filename.
C24_DatesAgree ==
    (/\ pkg_file.some /\ meta_file.some
     /\ "update_apf_core_json" \notin errors
     /\ IsFile(stage, core_json_path))
        => \E d \in RunDays :
              /\ stage[core_json_path].data.date_release = strftime_Y_m_d(d)
              /\ Contains(pkg_file.name, strftime_Ymd(d))
              /\ Contains(meta_file.name, strftime_Ymd(d))

====
